---- MODULE Spec2Model ----
(***************************************************************************)
(* A model of tracktotrip3/location.py: the proximity caches of the two    *)
(* providers, the provider adapters (query_google, query_foursquare), the  *)
(* resolver (infer_location), and the centroid re-estimation               *)
(* (update_location_centroid, compute_centroid).                           *)
(*                                                                         *)
(* Points of the resolver are positions on a line, in meters; the distance *)
(* of two points is the absolute difference.  A Python dict is a sequence  *)
(* of entries in insertion order.  An Optional value is a sequence of      *)
(* length at most one: None is <<>>, a value v is <<v>>.                   *)
(***************************************************************************)
EXTENDS Integers, Sequences, FiniteSets

(* ------------------------------ bounds --------------------------------- *)

\* A provider response holds at most MaxRes results.
MaxRes == 1
\* The knowledge base returns at most MaxKB matches.
MaxKB == 2
\* The result limit N ranges over 0..MaxLimit.
MaxLimit == 3
\* Before a recorded call of an adapter the caches hold at most MaxCached entries in all.
MaxCached == 2
\* The point history handed to update_location_centroid holds at most MaxHist points.
MaxHist == 3
\* DBSCAN labels range over -1..MaxLabel.
MaxLabel == 1

\* The points of the resolver: two places a meter apart.
Points == {0, 1}
\* max_distance, the search radius and cache threshold: one that tells the two
\* points apart and one that does not.
Thresholds == {1, 2}
\* The distances Foursquare reports.
Distances == {0, 1}
\* The latitudes and longitudes, in degrees, of the points of a history.
Degrees == {0, 1}
\* API keys: the empty key and a valid one.
Keys == {"", "key"}

(* ----------------------------- state ----------------------------------- *)

VARIABLES
    GG_CACHE,   \* dict Point -> candidates, of Google
    FS_CACHE,   \* dict Point -> candidates, of Foursquare
    call,       \* the latest call: the operation and its arguments
    ret,        \* what the latest call returned (or raised)
    log,        \* what the latest call did, in order: calls, cache reads, requests, inserts
    cluster,    \* the point history of a location
    labels,     \* the labels DBSCAN gave the latest extended history
    centroid    \* the centroid update_location_centroid returned (None before)

vars == <<GG_CACHE, FS_CACHE, call, ret, log, cluster, labels, centroid>>

(* ---------------------------- helpers ---------------------------------- *)

None == <<>>
Some(v) == <<v>>

\* Python's truth value of from_cache's result: None and [] are falsy.
Truthy(opt) == opt # None /\ opt[1] # <<>>

Abs(x) == IF x < 0 THEN -x ELSE x

\* Point.distance, in meters.
distance(a, b) == Abs(a - b)

\* One event of the log.
Ev(ev, who, status, value) == [ev |-> ev, who |-> who, status |-> status, value |-> value]

\* cache[point] = values of a Python dict: an existing key keeps its place.
DictSet(cache, point, values) ==
    IF \E i \in 1..Len(cache) : cache[i].key = point
    THEN [i \in 1..Len(cache) |->
            IF cache[i].key = point THEN [key |-> point, value |-> values] ELSE cache[i]]
    ELSE Append(cache, [key |-> point, value |-> values])

(* ------------------------- ProximityCache ------------------------------ *)

\* from_cache with a key at exactly the threshold taken as a hit.
RECURSIVE from_cache_le(_, _, _)
from_cache_le(cache, point, threshold) ==
    IF cache = <<>> THEN None
    ELSE IF distance(point, Head(cache).key) <= threshold THEN Some(Head(cache).value)
    ELSE from_cache_le(Tail(cache), point, threshold)

\* The value of the first key, in insertion order, nearer than threshold; else None.
RECURSIVE from_cache(_, _, _)
from_cache(cache, point, threshold) ==
    IF cache = <<>> THEN None
    ELSE IF distance(point, Head(cache).key) < threshold THEN Some(Head(cache).value)
    ELSE from_cache(Tail(cache), point, threshold)

google_insert_cache(cache, point, values) == DictSet(cache, point, values)

foursquare_insert_cache(cache, point, values) == DictSet(cache, point, values)

(* ------------------------- ProviderAdapter ----------------------------- *)

\* Names of the places a provider, or the knowledge base, returns: by position.
GoogleNames == <<"g1", "g2", "g3", "g4">>
FoursquareNames == <<"f1", "f2", "f3", "f4">>
KBNames == <<"kb1", "kb2", "kb3", "kb4">>

\* No request was issued: the response is not looked at.
NoRequest == [status_code |-> 0, results |-> <<>>]

\* Sequences over S of length at most n.
SeqsUpTo(S, n) == UNION {[1..m -> S] : m \in 0..n}

\* The responses of Google: a failure, or 200 with up to MaxRes places.
GoogleResponses ==
    {[status_code |-> 500, results |-> <<>>]} \cup
    {[status_code |-> 200,
      results |-> [i \in 1..Len(locs) |->
                     [name |-> GoogleNames[i], location |-> locs[i], types |-> <<"cafe">>]]] :
        locs \in SeqsUpTo(Points, MaxRes)}

\* The responses of Foursquare: a failure, or 200 with up to MaxRes places.
FoursquareResponses ==
    {[status_code |-> 500, results |-> <<>>]} \cup
    {[status_code |-> 200,
      results |-> [i \in 1..Len(ds) |->
                     [name |-> FoursquareNames[i], distance |-> ds[i],
                      categories |-> <<[name |-> "cafe"]>>]]] :
        ds \in SeqsUpTo(Distances, MaxRes)}

\* What an adapter hands back: its return value, the cache after it, what it did.
Outcome(r, cache, l) == [ret |-> r, cache |-> cache, log |-> l]

\* query_foursquare caching an empty list whatever the status of the response.
query_foursquare_cache_failure(cache, point, max_distance, key, req) ==
    IF key = "" THEN Outcome(<<>>, cache, <<>>)
    ELSE IF Truthy(from_cache(cache, point, max_distance))
    THEN LET hit == from_cache(cache, point, max_distance)[1] IN
         Outcome(hit, cache,
                 << Ev("from_cache", "FOURSQUARE", 0, hit),
                    Ev("from_cache", "FOURSQUARE", 0, hit) >>)
    ELSE LET miss == Ev("from_cache", "FOURSQUARE", 0, <<>>)
             get == Ev("GET", "FOURSQUARE", req.status_code, <<>>)
         IN Outcome(<<>>, foursquare_insert_cache(cache, point, <<>>),
                    << miss, get, Ev("insert", "FOURSQUARE", 0, <<>>) >>)

query_foursquare(cache, point, max_distance, key, req) ==
    IF key = "" THEN Outcome(<<>>, cache, <<>>)
    ELSE IF Truthy(from_cache(cache, point, max_distance))
    THEN LET hit == from_cache(cache, point, max_distance)[1] IN
         Outcome(hit, cache,
                 << Ev("from_cache", "FOURSQUARE", 0, hit),
                    Ev("from_cache", "FOURSQUARE", 0, hit) >>)
    ELSE LET miss == Ev("from_cache", "FOURSQUARE", 0, <<>>)
             get == Ev("GET", "FOURSQUARE", req.status_code, <<>>)
         IN IF req.status_code # 200 THEN Outcome(<<>>, cache, << miss, get >>)
            ELSE LET results == req.results
                     result == [i \in 1..Len(results) |->
                                  [label |-> results[i].name,
                                   distance |-> results[i].distance,
                                   types |-> [c \in 1..Len(results[i].categories) |->
                                                results[i].categories[c].name],
                                   suggestion_type |-> "FOURSQUARE"]]
                 IN Outcome(result, foursquare_insert_cache(cache, point, result),
                            << miss, get, Ev("insert", "FOURSQUARE", 0, result) >>)

query_google(cache, point, max_distance, key, req) ==
    IF key = "" THEN Outcome(<<>>, cache, <<>>)
    ELSE IF Truthy(from_cache(cache, point, max_distance))
    THEN LET hit == from_cache(cache, point, max_distance)[1] IN
         Outcome(hit, cache,
                 << Ev("from_cache", "GOOGLE", 0, hit),
                    Ev("from_cache", "GOOGLE", 0, hit) >>)
    ELSE LET miss == Ev("from_cache", "GOOGLE", 0, <<>>)
             get == Ev("GET", "GOOGLE", req.status_code, <<>>)
         IN IF req.status_code # 200 THEN Outcome(<<>>, cache, << miss, get >>)
            ELSE LET results == req.results
                     final_results == [i \in 1..Len(results) |->
                                         [label |-> results[i].name,
                                          distance |-> distance(results[i].location, point),
                                          types |-> results[i].types,
                                          suggestion_type |-> "GOOGLE"]]
                 IN Outcome(final_results, google_insert_cache(cache, point, final_results),
                            << miss, get, Ev("insert", "GOOGLE", 0, final_results) >>)

\* Whether a call of an adapter goes as far as the request.
Requests(cache, point, max_distance, key) ==
    key # "" /\ ~Truthy(from_cache(cache, point, max_distance))

(* ------------------------------ Init ----------------------------------- *)

NoCall == [op |-> "none"]

Init ==
    /\ GG_CACHE = <<>>
    /\ FS_CACHE = <<>>
    /\ call = NoCall
    /\ ret = [kind |-> "none"]
    /\ log = <<>>
    /\ cluster = <<>>
    /\ labels = <<>>
    /\ centroid = None

(* ------------------- calls of the adapters alone ----------------------- *)

\* An earlier call of query_google, by any caller: it is not recorded, the cache
\* keeps what it cached.
EarlierGoogle ==
    /\ call = NoCall
    /\ \E point \in Points, max_distance \in Thresholds :
       \E req \in IF Requests(GG_CACHE, point, max_distance, "key")
                  THEN GoogleResponses ELSE {NoRequest} :
       \E o \in {query_google(GG_CACHE, point, max_distance, "key", req)} :
           /\ Len(o.cache) + Len(FS_CACHE) <= MaxCached
           /\ GG_CACHE' = o.cache
           /\ UNCHANGED <<FS_CACHE, call, ret, log, cluster, labels, centroid>>

EarlierFoursquare ==
    /\ call = NoCall
    /\ \E point \in Points, max_distance \in Thresholds :
       \E req \in IF Requests(FS_CACHE, point, max_distance, "key")
                  THEN FoursquareResponses ELSE {NoRequest} :
       \E o \in {query_foursquare(FS_CACHE, point, max_distance, "key", req)} :
           /\ Len(GG_CACHE) + Len(o.cache) <= MaxCached
           /\ FS_CACHE' = o.cache
           /\ UNCHANGED <<GG_CACHE, call, ret, log, cluster, labels, centroid>>

\* The recorded call is a call of query_google.
QueryGoogle ==
    /\ call = NoCall
    /\ \E point \in Points, max_distance \in Thresholds, key \in Keys :
       \E req \in IF Requests(GG_CACHE, point, max_distance, key)
                  THEN GoogleResponses ELSE {NoRequest} :
           \E o \in {query_google(GG_CACHE, point, max_distance, key, req)} :
           /\ GG_CACHE' = o.cache
           /\ call' = [op |-> "query_google", point |-> point,
                       max_distance |-> max_distance, key |-> key]
           /\ ret' = [kind |-> "list", value |-> o.ret]
           /\ log' = o.log
           /\ UNCHANGED <<FS_CACHE, cluster, labels, centroid>>

\* The recorded call is a call of query_foursquare.
QueryFoursquare ==
    /\ call = NoCall
    /\ \E point \in Points, max_distance \in Thresholds, key \in Keys :
       \E req \in IF Requests(FS_CACHE, point, max_distance, key)
                  THEN FoursquareResponses ELSE {NoRequest} :
           \E o \in {query_foursquare(FS_CACHE, point, max_distance, key, req)} :
           /\ FS_CACHE' = o.cache
           /\ call' = [op |-> "query_foursquare", point |-> point,
                       max_distance |-> max_distance, key |-> key]
           /\ ret' = [kind |-> "list", value |-> o.ret]
           /\ log' = o.log
           /\ UNCHANGED <<GG_CACHE, cluster, labels, centroid>>

NextCache ==
    \/ EarlierGoogle
    \/ EarlierFoursquare
    \/ QueryGoogle
    \/ QueryFoursquare

\* Earlier calls fill the caches; then one call of an adapter is made on them and
\* recorded.
SpecCache == Init /\ [][NextCache]_vars

(* ------------------------- LocationResolver ---------------------------- *)

\* s with x put before the first entry of a greater distance (s is sorted).
RECURSIVE Insert(_, _)
Insert(s, x) ==
    IF s = <<>> THEN <<x>>
    ELSE IF x.distance < Head(s).distance THEN <<x>> \o s
    ELSE <<Head(s)>> \o Insert(Tail(s), x)

\* sorted leaving the list as it is.
unsorted(s) == s

\* Python's sorted(s, key=lambda d: d['distance']): ascending and stable.
RECURSIVE sorted(_)
sorted(s) ==
    IF s = <<>> THEN <<>>
    ELSE Insert(sorted(SubSeq(s, 1, Len(s) - 1)), s[Len(s)])

\* Python's s[:n] for n >= 0.
Slice(s, n) == SubSeq(s, 1, IF n < Len(s) THEN n ELSE Len(s))

Location(label, position, other) ==
    [kind |-> "Location", label |-> label, centroid |-> position, other |-> other]

\* locations[0] of an empty list.
IndexError == [kind |-> "IndexError"]

\* The candidates of the knowledge base: one per (label, centroid, _).
KBLocations(location_query, point) ==
    IF location_query # None
    THEN LET queried_locations == location_query[1] IN
         [i \in 1..Len(queried_locations) |->
            [label |-> queried_locations[i][1],
             distance |-> distance(queried_locations[i][2], point),
             suggestion_type |-> "KB"]]
    ELSE <<>>

\* Rank without the sort of the provider candidates.
Rank_unsorted_api(point, locations, api, limit) ==
    IF Len(locations) > 0
    THEN LET merged == Slice(sorted(locations) \o api, limit) IN
         IF Len(merged) = 0 THEN IndexError
         ELSE Location(merged[1].label, point, merged)
    ELSE Location("#?", point, api)

\* Rank taking the label of the last alternative.
Rank_label_of_last(point, locations, api, limit) ==
    LET api_locations == IF Len(api) > 0 THEN sorted(api) ELSE api IN
    IF Len(locations) > 0
    THEN LET merged == Slice(sorted(locations) \o api_locations, limit) IN
         IF Len(merged) = 0 THEN IndexError
         ELSE Location(merged[Len(merged)].label, point, merged)
    ELSE Location("#?", point, api_locations)

\* Rank cutting the provider candidates to the limit when the knowledge base gave none.
Rank_limits_api(point, locations, api, limit) ==
    LET api_locations == IF Len(api) > 0 THEN sorted(api) ELSE api IN
    IF Len(locations) > 0
    THEN LET merged == Slice(sorted(locations) \o api_locations, limit) IN
         IF Len(merged) = 0 THEN IndexError
         ELSE Location(merged[1].label, point, merged)
    ELSE Location("#?", point, Slice(api_locations, limit))

\* Lines 243-251 of infer_location: the candidates of the knowledge base and of
\* the providers, ranked, limited and made a Location.
Rank(point, locations, api, limit) ==
    LET api_locations == IF Len(api) > 0 THEN sorted(api) ELSE api IN
    IF Len(locations) > 0
    THEN LET merged == Slice(sorted(locations) \o api_locations, limit) IN
         IF Len(merged) = 0 THEN IndexError
         ELSE Location(merged[1].label, point, merged)
    ELSE Location("#?", point, api_locations)

\* What a call of an adapter adds to the log of infer_location.
Called(who, o) ==
    <<Ev("call", who, 0, <<>>)>> \o o.log \o <<Ev("return", who, 0, o.ret)>>

\* infer_location once the adapters have answered: g and f are what query_google
\* and query_foursquare handed back, None for an adapter that was not called.
Resolve(point, locations, limit, gg, fs, g, f) ==
    [ret |-> Rank(point, locations,
                  (IF g = None THEN <<>> ELSE g[1].ret)
                      \o (IF f = None THEN <<>> ELSE f[1].ret),
                  limit),
     gg |-> IF g = None THEN gg ELSE g[1].cache,
     fs |-> IF f = None THEN fs ELSE f[1].cache,
     log |-> (IF g = None THEN <<>> ELSE Called("GOOGLE", g[1]))
                 \o (IF f = None THEN <<>> ELSE Called("FOURSQUARE", f[1]))]

\* infer_location consulting the providers only below the limit.
infer_location_lt(point, location_query, max_distance, use_google, google_key, use_foursquare, foursquare_key, limit, gg, fs, greq, freq) ==
    LET locations == KBLocations(location_query, point) IN
    Resolve(point, locations, limit, gg, fs,
            IF Len(locations) < limit /\ use_google /\ google_key # ""
            THEN Some(query_google(gg, point, max_distance, google_key, greq))
            ELSE None,
            IF Len(locations) < limit /\ use_foursquare /\ foursquare_key # ""
            THEN Some(query_foursquare(fs, point, max_distance, foursquare_key, freq))
            ELSE None)

\* infer_location on the caches gg and fs; greq and freq are the providers' responses.
\* Hands back the return value, both caches and the log.
infer_location(point, location_query, max_distance, use_google, google_key, use_foursquare, foursquare_key, limit, gg, fs, greq, freq) ==
    LET locations == KBLocations(location_query, point) IN
    Resolve(point, locations, limit, gg, fs,
            IF Len(locations) <= limit /\ use_google /\ google_key # ""
            THEN Some(query_google(gg, point, max_distance, google_key, greq))
            ELSE None,
            IF Len(locations) <= limit /\ use_foursquare /\ foursquare_key # ""
            THEN Some(query_foursquare(fs, point, max_distance, foursquare_key, freq))
            ELSE None)

\* What the knowledge-base query function returns: up to MaxKB matches.
KBResults ==
    {[i \in 1..Len(cs) |-> <<KBNames[i], cs[i], "_">>] : cs \in SeqsUpTo(Points, MaxKB)}

\* location_query: absent, or a function returning one of KBResults.
LocationQueries == {None} \cup {Some(r) : r \in KBResults}

\* The first call of query_google of the process, made on empty caches and not
\* recorded: the resolver is called on what it cached.
FirstGoogle ==
    /\ call = NoCall
    /\ GG_CACHE = <<>>
    /\ FS_CACHE = <<>>
    /\ \E point \in Points, max_distance \in Thresholds, req \in GoogleResponses :
       \E o \in {query_google(GG_CACHE, point, max_distance, "key", req)} :
           /\ GG_CACHE' = o.cache
           /\ UNCHANGED <<FS_CACHE, call, ret, log, cluster, labels, centroid>>

FirstFoursquare ==
    /\ call = NoCall
    /\ GG_CACHE = <<>>
    /\ FS_CACHE = <<>>
    /\ \E point \in Points, max_distance \in Thresholds, req \in FoursquareResponses :
       \E o \in {query_foursquare(FS_CACHE, point, max_distance, "key", req)} :
           /\ FS_CACHE' = o.cache
           /\ UNCHANGED <<GG_CACHE, call, ret, log, cluster, labels, centroid>>

\* The recorded call is a call of infer_location.
InferLocation ==
    /\ call = NoCall
    /\ \E point \in Points, location_query \in LocationQueries, max_distance \in Thresholds,
          use_google \in BOOLEAN, google_key \in Keys,
          use_foursquare \in BOOLEAN, foursquare_key \in Keys, limit \in 0..MaxLimit :
       LET consult == Len(KBLocations(location_query, point)) <= limit IN
       \E greq \in IF consult /\ use_google
                      /\ Requests(GG_CACHE, point, max_distance, google_key)
                   THEN GoogleResponses ELSE {NoRequest},
          freq \in IF consult /\ use_foursquare
                      /\ Requests(FS_CACHE, point, max_distance, foursquare_key)
                   THEN FoursquareResponses ELSE {NoRequest} :
           \E o \in {infer_location(point, location_query, max_distance, use_google,
                                      google_key, use_foursquare, foursquare_key, limit,
                                      GG_CACHE, FS_CACHE, greq, freq)} :
           /\ GG_CACHE' = o.gg
           /\ FS_CACHE' = o.fs
           /\ call' = [op |-> "infer_location", point |-> point,
                       location_query |-> location_query, max_distance |-> max_distance,
                       use_google |-> use_google, google_key |-> google_key,
                       use_foursquare |-> use_foursquare, foursquare_key |-> foursquare_key,
                       limit |-> limit]
           /\ ret' = o.ret
           /\ log' = o.log
           /\ UNCHANGED <<cluster, labels, centroid>>

Next ==
    \/ FirstGoogle
    \/ FirstFoursquare
    \/ InferLocation

\* One call of infer_location, recorded, on the caches of a fresh process or on
\* what a first call of an adapter cached.
Spec == Init /\ [][Next]_vars

(* --------------------------- ClusterEngine ----------------------------- *)

\* Point(lat, lon, None).
Point(lat, lon) == [lat |-> lat, lon |-> lon]

\* Point.gen2arr: [lon, lat].
gen2arr(p) == <<p.lon, p.lat>>

RECURSIVE GCD(_, _)
GCD(a, b) == IF b = 0 THEN a ELSE GCD(b, a % b)

RECURSIVE Sum(_)
Sum(xs) == IF xs = <<>> THEN 0 ELSE Head(xs) + Sum(Tail(xs))

\* np.mean of a non-empty list of naturals, as a fraction in lowest terms.
Mean(xs) ==
    LET g == GCD(Sum(xs), Len(xs)) IN [num |-> Sum(xs) \div g, den |-> Len(xs) \div g]

\* The history points: any latitude and longitude.
HistPoints == {Point(lat, lon) : lat \in Degrees, lon \in Degrees}

compute_centroid(points) ==
    LET lats == [i \in 1..Len(points) |-> points[i][2]]
        lons == [i \in 1..Len(points) |-> points[i][1]]
    IN Point(Mean(lats), Mean(lons))

\* The first loop of update_location_centroid from index i on: clusters is the
\* dict label -> points, in the order the labels first appear.
RECURSIVE Grouped(_, _, _, _)
Grouped(points, p_labels, i, clusters) ==
    IF i > Len(points) THEN clusters
    ELSE Grouped(points, p_labels, i + 1,
            IF \E k \in 1..Len(clusters) : clusters[k].label = p_labels[i]
            THEN [k \in 1..Len(clusters) |->
                    IF clusters[k].label = p_labels[i]
                    THEN [label |-> clusters[k].label,
                          points |-> Append(clusters[k].points, points[i])]
                    ELSE clusters[k]]
            ELSE Append(clusters, [label |-> p_labels[i], points |-> <<points[i]>>]))

\* Biggest keeping the first of the clusters of equal size.
RECURSIVE BiggestStrict(_, _, _, _)
BiggestStrict(clusters, k, biggest_centroid_l, biggest_centroid) ==
    IF k > Len(clusters) THEN biggest_centroid
    ELSE IF clusters[k].label >= 0 /\ Len(clusters[k].points) > biggest_centroid_l
    THEN BiggestStrict(clusters, k + 1, Len(clusters[k].points),
                       Some(compute_centroid(clusters[k].points)))
    ELSE BiggestStrict(clusters, k + 1, biggest_centroid_l, biggest_centroid)

\* Biggest counting the noise as a cluster.
RECURSIVE BiggestAnyLabel(_, _, _, _)
BiggestAnyLabel(clusters, k, biggest_centroid_l, biggest_centroid) ==
    IF k > Len(clusters) THEN biggest_centroid
    ELSE IF Len(clusters[k].points) >= biggest_centroid_l
    THEN BiggestAnyLabel(clusters, k + 1, Len(clusters[k].points),
                         Some(compute_centroid(clusters[k].points)))
    ELSE BiggestAnyLabel(clusters, k + 1, biggest_centroid_l, biggest_centroid)

\* The second loop from cluster k on: biggest_centroid is None or the centroid of
\* the biggest cluster so far, biggest_centroid_l its size (-1 stands for -inf).
RECURSIVE Biggest(_, _, _, _)
Biggest(clusters, k, biggest_centroid_l, biggest_centroid) ==
    IF k > Len(clusters) THEN biggest_centroid
    ELSE IF clusters[k].label >= 0 /\ Len(clusters[k].points) >= biggest_centroid_l
    THEN Biggest(clusters, k + 1, Len(clusters[k].points),
                 Some(compute_centroid(clusters[k].points)))
    ELSE Biggest(clusters, k + 1, biggest_centroid_l, biggest_centroid)

\* update_location_centroid, p_labels being the labels DBSCAN gives the extended
\* history.  Hands back the centroid (None or a Point) and the history.
update_location_centroid(point, history, p_labels) ==
    LET extended == Append(history, point)
        points == [i \in 1..Len(extended) |-> gen2arr(extended[i])]
        biggest_centroid == Biggest(Grouped(points, p_labels, 1, <<>>), 1, -1, None)
    IN [centroid |-> IF biggest_centroid = None THEN Some(compute_centroid(points))
                     ELSE biggest_centroid,
        cluster |-> extended]

\* Any history of a location, before the call.
InitCentroid ==
    /\ GG_CACHE = <<>>
    /\ FS_CACHE = <<>>
    /\ call = NoCall
    /\ ret = [kind |-> "none"]
    /\ log = <<>>
    /\ cluster \in SeqsUpTo(HistPoints, MaxHist)
    /\ labels = <<>>
    /\ centroid = None

\* The recorded call is a call of update_location_centroid.
UpdateLocationCentroid ==
    /\ call = NoCall
    /\ \E point \in HistPoints :
       \E p_labels \in [1..(Len(cluster) + 1) -> -1..MaxLabel] :
       \E o \in {update_location_centroid(point, cluster, p_labels)} :
           /\ cluster' = o.cluster
           /\ labels' = p_labels
           /\ centroid' = o.centroid
           /\ call' = [op |-> "update_location_centroid", point |-> point,
                       cluster |-> cluster]
           /\ UNCHANGED <<GG_CACHE, FS_CACHE, ret, log>>

NextCentroid == UpdateLocationCentroid

\* One call of update_location_centroid on any history, DBSCAN labelling the
\* extended history in any way.
SpecCentroid == InitCentroid /\ [][NextCentroid]_vars

(* ===================== properties of infer_location ==================== *)

\* The recorded call is a call of infer_location.
Inferred == call.op = "infer_location"

\* The candidates of the knowledge base in the recorded call, as queried.
kb_candidates == KBLocations(call.location_query, call.point)

\* What the adapter of provider who returned to the resolver in the given log.
RECURSIVE ReturnedIn(_, _)
ReturnedIn(l, who) ==
    IF l = <<>> THEN <<>>
    ELSE IF Head(l).ev = "return" /\ Head(l).who = who THEN Head(l).value
    ELSE ReturnedIn(Tail(l), who)

\* The candidates of the providers in the recorded call: Google's, then Foursquare's.
api_candidates == ReturnedIn(log, "GOOGLE") \o ReturnedIn(log, "FOURSQUARE")

\* The place entry i of s takes when s is put in ascending order of distance,
\* entries of equal distance keeping their order.
Place(s, i) ==
    1 + Cardinality({j \in 1..Len(s) :
                        \/ s[j].distance < s[i].distance
                        \/ s[j].distance = s[i].distance /\ j < i})

\* s in ascending order of distance.
Ascending(s) == [k \in 1..Len(s) |-> s[CHOOSE i \in 1..Len(s) : Place(s, i) = k]]

\* The first n entries of s.
FirstN(s, n) == [i \in 1..(IF n < Len(s) THEN n ELSE Len(s)) |-> s[i]]

\* C1: with a non-empty knowledge-base result and a limit N >= 1, infer_location
\* returns a Location whose alternatives are the first N entries of the knowledge-base
\* candidates in ascending order of distance followed by the provider candidates in
\* ascending order of distance, and whose label is that of the closest
\* knowledge-base candidate.
C1_MergeOrder ==
    Inferred /\ kb_candidates # <<>> /\ call.limit >= 1 =>
        /\ ret.kind = "Location"
        /\ ret.other = FirstN(Ascending(kb_candidates) \o Ascending(api_candidates),
                              call.limit)
        /\ ret.label = Ascending(kb_candidates)[1].label

\* Both lists arrive out of order and the limit cuts the provider candidates.
C1_Witness ==
    /\ Inferred
    /\ Len(kb_candidates) = 2
    /\ kb_candidates[1].distance > kb_candidates[2].distance
    /\ Len(api_candidates) = 2
    /\ api_candidates[1].distance > api_candidates[2].distance
    /\ call.limit = 3
    /\ ret.kind = "Location"
    /\ Len(ret.other) = 3

\* C2, as claimed: the alternatives of every Location infer_location returns are in
\* ascending order of distance.
C2_AlternativesAscending ==
    Inferred /\ ret.kind = "Location" =>
        \A i \in 1..(Len(ret.other) - 1) : ret.other[i].distance <= ret.other[i + 1].distance

\* C2, amended: in the alternatives of every Location infer_location returns, the
\* knowledge-base candidates come first, in ascending order of distance, and the
\* provider candidates follow, in ascending order of distance.
C2_AscendingWithinSource ==
    Inferred /\ ret.kind = "Location" =>
        \A i, j \in 1..Len(ret.other) :
            i < j =>
                /\ ret.other[j].suggestion_type = "KB" => ret.other[i].suggestion_type = "KB"
                /\ (ret.other[i].suggestion_type = "KB") = (ret.other[j].suggestion_type = "KB")
                       => ret.other[i].distance <= ret.other[j].distance

\* A provider candidate nearer than the knowledge-base candidate it follows, and
\* two provider candidates that arrived out of order.
C2_Witness ==
    /\ Inferred
    /\ ret.kind = "Location"
    /\ Len(ret.other) = 3
    /\ ret.other[1].suggestion_type = "KB"
    /\ ret.other[2].suggestion_type # "KB"
    /\ ret.other[2].distance < ret.other[1].distance
    /\ api_candidates[1].distance > api_candidates[2].distance

\* C3, as claimed: the label of every Location infer_location returns is the label of
\* the first alternative when there is one, and is the unknown label only when there
\* is none.
C3_LabelOfFirst ==
    Inferred /\ ret.kind = "Location" =>
        /\ ret.other # <<>> => ret.label = ret.other[1].label
        /\ ret.label = "#?" => ret.other = <<>>

\* C3, amended: the label of every Location infer_location returns is the label of
\* the first alternative when the knowledge base gave candidates, and is the unknown
\* label when it gave none, whether or not there are alternatives.
C3_LabelByKnowledgeBase ==
    Inferred /\ ret.kind = "Location" =>
        IF kb_candidates # <<>>
        THEN ret.other # <<>> /\ ret.label = ret.other[1].label /\ ret.label # "#?"
        ELSE ret.label = "#?"

\* No knowledge-base candidate, and provider candidates as alternatives.
C3_Witness ==
    /\ Inferred
    /\ ret.kind = "Location"
    /\ kb_candidates = <<>>
    /\ ret.other # <<>>
    /\ ret.label = "#?"

\* C4: without knowledge-base candidates infer_location returns the unknown label,
\* the query point as centroid and all provider candidates in ascending order of
\* distance, whatever the limit.
C4_NoKnowledgeBase ==
    Inferred /\ kb_candidates = <<>> =>
        ret = Location("#?", call.point, Ascending(api_candidates))

\* Provider candidates that arrived out of order, and more of them than the limit.
C4_Witness ==
    /\ Inferred
    /\ kb_candidates = <<>>
    /\ Len(api_candidates) = 2
    /\ api_candidates[1].distance > api_candidates[2].distance
    /\ call.limit < 2
    /\ ret.kind = "Location"
    /\ Len(ret.other) = 2

\* The events of provider who in log l.
OfProvider(l, who) == SelectSeq(l, LAMBDA e : e.who = who)

\* The calls of the adapter of provider who in log l.
CallsOf(l, who) == SelectSeq(l, LAMBDA e : e.who = who /\ e.ev = "call")

\* C7, for one step: a call of infer_location with more knowledge-base candidates
\* than the limit calls no adapter and leaves both caches as they were; otherwise it
\* calls once the adapter of each provider that is enabled and has a key, Google's
\* before Foursquare's, and never the adapter of a provider that is disabled or has
\* an empty key.
C7_Step ==
    call'.op = "infer_location" /\ call = NoCall =>
        LET kb == KBLocations(call'.location_query, call'.point)
            google == call'.use_google /\ call'.google_key # ""
            foursquare == call'.use_foursquare /\ call'.foursquare_key # ""
        IN /\ Len(kb) > call'.limit =>
                log' = <<>> /\ GG_CACHE' = GG_CACHE /\ FS_CACHE' = FS_CACHE
           /\ Len(kb) <= call'.limit =>
                /\ Len(CallsOf(log', "GOOGLE")) = (IF google THEN 1 ELSE 0)
                /\ Len(CallsOf(log', "FOURSQUARE")) = (IF foursquare THEN 1 ELSE 0)
           /\ ~google => OfProvider(log', "GOOGLE") = <<>> /\ GG_CACHE' = GG_CACHE
           /\ ~foursquare => OfProvider(log', "FOURSQUARE") = <<>> /\ FS_CACHE' = FS_CACHE
           /\ \A i, j \in 1..Len(log') :
                log'[i].who = "GOOGLE" /\ log'[j].who = "FOURSQUARE" => i < j

\* C7: providers are consulted if and only if the knowledge base gave at most N
\* candidates; then each enabled provider with a key is called once, Google first.
C7_ProvidersGated == [][C7_Step]_vars

\* As many knowledge-base candidates as the limit, and both providers asked.
C7_Witness ==
    /\ Inferred
    /\ Len(kb_candidates) = call.limit
    /\ call.limit >= 1
    /\ \E i, j \in 1..Len(log) :
        /\ log[i].ev = "GET" /\ log[i].who = "GOOGLE"
        /\ log[j].ev = "GET" /\ log[j].who = "FOURSQUARE"

\* C10, as claimed: infer_location returns a Location for every limit N >= 0.
C10_AlwaysReturns == Inferred => ret.kind = "Location"

(* ================= properties of the caches and adapters =============== *)

\* The recorded call is a call of an adapter.
Adapted == call.op \in {"query_google", "query_foursquare"}

\* The cache of the adapter of the recorded call.
CacheOfCall == IF call.op = "query_google" THEN GG_CACHE ELSE FS_CACHE

\* The recorded call inserted a value in its cache.
Inserted == \E i \in 1..Len(log) : log[i].ev = "insert"

\* The value the recorded call inserted.
InsertedValue == log[CHOOSE i \in 1..Len(log) : log[i].ev = "insert"].value

\* The adapter's lookup in cache at point q with threshold t is a hit returning
\* value L when L is not empty, and a miss when it is.
HitOrMiss(cache, q, t, L) ==
    IF L # <<>>
    THEN Truthy(from_cache(cache, q, t)) /\ from_cache(cache, q, t)[1] = L
    ELSE ~Truthy(from_cache(cache, q, t))

\* The place of key p in the cache.
PlaceOfKey(cache, p) == CHOOSE i \in 1..Len(cache) : cache[i].key = p

\* C5, as claimed: once an adapter has inserted value L under point p, its lookup at
\* any point q nearer to p than the threshold is a hit returning L when L is not
\* empty and a miss when L is empty, whatever the cache held before.
C5_LookupAfterInsert ==
    Adapted /\ Inserted =>
        \A q \in Points, t \in Thresholds :
            distance(q, call.point) < t => HitOrMiss(CacheOfCall, q, t, InsertedValue)

\* C5, amended: the same, for the points q and thresholds such that no key that
\* precedes p in the insertion order of the cache is nearer to q than the threshold.
C5_LookupAfterInsertFirstInOrder ==
    Adapted /\ Inserted =>
        \A q \in Points, t \in Thresholds :
            /\ distance(q, call.point) < t
            /\ \A i \in 1..(PlaceOfKey(CacheOfCall, call.point) - 1) :
                 ~(distance(q, CacheOfCall[i].key) < t)
            => HitOrMiss(CacheOfCall, q, t, InsertedValue)

\* A value inserted under the second key of the cache, the first key holding
\* another value and being out of reach of some lookup that reaches the second.
C5_Witness ==
    /\ Adapted
    /\ Inserted
    /\ InsertedValue # <<>>
    /\ Len(CacheOfCall) = 2
    /\ CacheOfCall[2].key = call.point
    /\ CacheOfCall[1].value # InsertedValue
    /\ \E q \in Points, t \in Thresholds :
        /\ distance(q, call.point) < t
        /\ ~(distance(q, CacheOfCall[1].key) < t)

\* C6, for one step: a call of an adapter with an empty key returns the empty list,
\* reads no cache and issues no request; a call whose request is answered with
\* another status than 200 returns the empty list; both leave the caches as they
\* were.  The cache changes only on a 200 response, which stores the returned list,
\* empty or not, under the query point.
C6_Step ==
    call'.op \in {"query_google", "query_foursquare"} /\ call = NoCall =>
        LET before == IF call'.op = "query_google" THEN GG_CACHE ELSE FS_CACHE
            after == IF call'.op = "query_google" THEN GG_CACHE' ELSE FS_CACHE'
            requested == \E i \in 1..Len(log') : log'[i].ev = "GET"
            answered == \E i \in 1..Len(log') : log'[i].ev = "GET" /\ log'[i].status = 200
        IN /\ call'.key = "" => ret'.value = <<>> /\ log' = <<>> /\ after = before
           /\ requested /\ ~answered => ret'.value = <<>> /\ after = before
           /\ after # before => answered
           /\ answered =>
                /\ after = DictSet(before, call'.point, ret'.value)
                /\ \E i \in 1..Len(after) :
                     after[i].key = call'.point /\ after[i].value = ret'.value
           /\ GG_CACHE' # GG_CACHE => call'.op = "query_google"
           /\ FS_CACHE' # FS_CACHE => call'.op = "query_foursquare"

\* C6: an adapter call without a successful response returns the empty list and
\* leaves the cache unchanged; only a 200 response writes the cache.
C6_OnlySuccessIsCached == [][C6_Step]_vars

\* A request answered with a failure, on a cache that holds an entry.
C6_Witness ==
    /\ Adapted
    /\ \E i \in 1..Len(log) : log[i].ev = "GET" /\ log[i].status # 200
    /\ ret.value = <<>>
    /\ CacheOfCall # <<>>

(* ============== properties of update_location_centroid ================= *)

\* The recorded call is a call of update_location_centroid.
Updated == call.op = "update_location_centroid"

\* The places in the extended history of the points DBSCAN labelled l.
Labelled(l) == {i \in 1..Len(labels) : labels[i] = l}

\* The labels of the clusters that are not noise.
Clusters == {labels[i] : i \in 1..Len(labels)} \ {-1}

\* The place in the extended history where label l first appears.
FirstPlace(l) == CHOOSE i \in Labelled(l) : \A j \in Labelled(l) : i <= j

\* The clusters of the greatest size.
Largest == {l \in Clusters : \A m \in Clusters : Cardinality(Labelled(m)) <= Cardinality(Labelled(l))}

RECURSIVE SumLat(_)
SumLat(I) == IF I = {} THEN 0
             ELSE LET i == CHOOSE i \in I : TRUE IN cluster[i].lat + SumLat(I \ {i})

RECURSIVE SumLon(_)
SumLon(I) == IF I = {} THEN 0
             ELSE LET i == CHOOSE i \in I : TRUE IN cluster[i].lon + SumLon(I \ {i})

\* Point c is the mean of the points of the extended history at the places I.
IsMeanOf(c, I) ==
    /\ I # {}
    /\ c.lat.den > 0 /\ c.lat.num * Cardinality(I) = c.lat.den * SumLat(I)
    /\ c.lon.den > 0 /\ c.lon.num * Cardinality(I) = c.lon.den * SumLon(I)

\* C8, as claimed: the centroid returned is the mean of the largest cluster that is
\* not noise, and of the first of them in iteration order when several are largest.
C8_FirstLargestWins ==
    Updated /\ Clusters # {} =>
        /\ centroid # None
        /\ \E l \in Largest :
            /\ \A m \in Largest : FirstPlace(l) <= FirstPlace(m)
            /\ IsMeanOf(centroid[1], Labelled(l))

\* C8, amended: the centroid returned is the mean of the largest cluster that is not
\* noise, and of the last of them in iteration order when several are largest.
C8_LastLargestWins ==
    Updated /\ Clusters # {} =>
        /\ centroid # None
        /\ \E l \in Largest :
            /\ \A m \in Largest : FirstPlace(m) <= FirstPlace(l)
            /\ IsMeanOf(centroid[1], Labelled(l))

\* Two largest clusters of different means, with a noise point.
C8_Witness ==
    /\ Updated
    /\ Cardinality(Largest) = 2
    /\ \E i \in 1..Len(labels) : labels[i] = -1
    /\ centroid # None
    /\ \E l \in Largest : ~IsMeanOf(centroid[1], Labelled(l))

\* C9: update_location_centroid always returns a centroid; it is the mean of all
\* points of the extended history when DBSCAN labels every point noise, and the
\* mean of the points of one cluster, no noise point among them, otherwise.
C9_FallbackToAllPoints ==
    Updated =>
        /\ cluster = Append(call.cluster, call.point)
        /\ centroid # None
        /\ Clusters = {} => IsMeanOf(centroid[1], 1..Len(cluster))
        /\ Clusters # {} => \E l \in Clusters : IsMeanOf(centroid[1], Labelled(l))

\* Every point labelled noise, the points not all the same.
C9_Witness ==
    /\ Updated
    /\ Len(cluster) >= 3
    /\ \A i \in 1..Len(labels) : labels[i] = -1
    /\ \E i, j \in 1..Len(cluster) : cluster[i] # cluster[j]
    /\ centroid # None
    /\ IsMeanOf(centroid[1], 1..Len(cluster))

====
